---- MODULE Spec2Model ----
(***************************************************************************)
(* Tic-Tac-Toe against an exhaustive game-tree search                      *)
(* (src/tic_tac_toe.py, class TicTacToe).                                  *)
(*                                                                         *)
(* Three specifications share the definitions below:                       *)
(*   Spec             run_game's loop: the human (X) plays any legal cell, *)
(*                    the AI (O) plays calculate_best_move.                *)
(*   FnSpec           calculate_best_move as a function of the board: the  *)
(*                    board is any position of legal alternating play, and *)
(*                    the selector is run on it with minimax and then with *)
(*                    alpha-beta.                                          *)
(*   StepSpec         calculate_best_move and the two searches executed    *)
(*                    statement by statement, with the call stack, the     *)
(*                    list objects on the heap and the self.grid reference.*)
(***************************************************************************)
EXTENDS Integers, Sequences, FiniteSets, TLC

VARIABLES
  grid,          \* contents of the board object built by __init__ (the real game board)
  chosen_algo,   \* self.chosen_algo: "None", "minimax" or "alpha_beta"
  call_count,    \* self.call_count
  pc,            \* control point of the running method
  result,        \* run_game's local `result`
  best_position, \* calculate_best_move's local best_position (its return value)
  best_value,    \* calculate_best_move's local best_value
  move_values,   \* the successive values of calculate_best_move's local move_value
  outcome,       \* FnSpec: what each algorithm's run on the current board produced
  self_grid,     \* StepSpec: the object self.grid refers to (0 = the real game board)
  heap,          \* StepSpec: the simulated boards alive, by object id
  stack,         \* StepSpec: the frames of minimax_search / alpha_beta_search
  cbm,           \* StepSpec: the other locals of calculate_best_move
  ret            \* StepSpec: the search invocation that returned in the last step

vars == <<grid, chosen_algo, call_count, pc, result, best_position, best_value,
          move_values, outcome, self_grid, heap, stack, cbm, ret>>

(***************************************************************************)
(* Bounds of the model.                                                    *)
(***************************************************************************)
\* FnSpec runs the selector on boards with at most this many empty cells.
MaxEmpty == 8
\* StepSpec executes the search step by step on boards with at most this many empty cells.
MaxStepEmpty == 4

(***************************************************************************)
(* Values.                                                                 *)
(***************************************************************************)
\* float('-inf') and float('inf'): below and above every score in -10..10.
NegInf == -100
PosInf == 100
\* Python's None as a status / algorithm, and as a missing move.
None == "None"
NoMove == <<>>
Rows == 0..2
Cols == 0..2
Symbols == {" ", "X", "O"}

Max(a, b) == IF a >= b THEN a ELSE b
Min(a, b) == IF a <= b THEN a ELSE b

\* __init__: three rows of three spaces.
EmptyGrid == [i \in Rows |-> [j \in Cols |-> " "]]

\* (row, col) pairs in the order of `for i in range(3): for j in range(3)`.
RowMajor == << <<0,0>>, <<0,1>>, <<0,2>>, <<1,0>>, <<1,1>>, <<1,2>>, <<2,0>>, <<2,1>>, <<2,2>> >>

CountOf(g, s) == Cardinality({m \in Rows \X Cols : g[m[1]][m[2]] = s})

(***************************************************************************)
(* Board state and validity.                                               *)
(***************************************************************************)
\* check_valid_position_short: a faulty variant whose bounds check rejects row 2.
check_valid_position_short(g, row, col) ==
  IF row < 0 \/ row >= 2 THEN FALSE
  ELSE IF col < 0 \/ col > 2 THEN FALSE
  ELSE IF g[row][col] # " " THEN FALSE
  ELSE TRUE

check_valid_position(g, row, col) ==
  IF row < 0 \/ row > 2 THEN FALSE
  ELSE IF col < 0 \/ col > 2 THEN FALSE
  ELSE IF g[row][col] # " " THEN FALSE
  ELSE TRUE

\* The board after place_symbol (unchanged when the position is not valid).
place_symbol(g, row, col, symbol) ==
  IF check_valid_position(g, row, col)
  THEN [g EXCEPT ![row][col] = symbol]
  ELSE g

\* spaces_left == 0 (BoardFullEarly: a faulty variant that calls a board with one
\* empty cell full).
BoardFullEarly(g) == CountOf(g, " ") <= 1
BoardFull(g) == \A i \in Rows, j \in Cols : g[i][j] # " "

\* Rows, then columns, then the main diagonal, then the other diagonal, then fullness.
game_status(g) ==
  IF g[0][0] # " " /\ g[0][0] = g[0][1] /\ g[0][1] = g[0][2] THEN g[0][0]
  ELSE IF g[1][0] # " " /\ g[1][0] = g[1][1] /\ g[1][1] = g[1][2] THEN g[1][0]
  ELSE IF g[2][0] # " " /\ g[2][0] = g[2][1] /\ g[2][1] = g[2][2] THEN g[2][0]
  ELSE IF g[0][0] # " " /\ g[0][0] = g[1][0] /\ g[1][0] = g[2][0] THEN g[0][0]
  ELSE IF g[0][1] # " " /\ g[0][1] = g[1][1] /\ g[1][1] = g[2][1] THEN g[0][1]
  ELSE IF g[0][2] # " " /\ g[0][2] = g[1][2] /\ g[1][2] = g[2][2] THEN g[0][2]
  ELSE IF g[0][0] # " " /\ g[0][0] = g[1][1] /\ g[1][1] = g[2][2] THEN g[0][0]
  ELSE IF g[0][2] # " " /\ g[0][2] = g[1][1] /\ g[1][1] = g[2][0] THEN g[0][2]
  ELSE IF BoardFull(g) THEN "Draw"
  ELSE None

find_empty_spots(g) == SelectSeq(RowMajor, LAMBDA m : g[m[1]][m[2]] = " ")

score_position(g) ==
  LET res == game_status(g) IN
  IF res = "O" THEN 10
  ELSE IF res = "X" THEN -10
  ELSE 0

(***************************************************************************)
(* The pieces of the two searches.                                         *)
(***************************************************************************)
\* return 10 - depth (win_value_slow: a faulty variant that prefers slower wins).
win_value_slow(depth) == 10 + depth
win_value(depth) == 10 - depth
\* return -10 + depth (loss_as_win: a faulty variant with the sign of the line above).
loss_as_win(depth) == 10 - depth
loss_value(depth) == -10 + depth

\* if beta <= alpha: break (prune_reversed: a faulty variant with the comparison
\* turned round, which leaves the loops after the first child).
prune_reversed(alpha, beta) == alpha <= beta
prune(alpha, beta) == beta <= alpha

\* new_board = copy.deepcopy(board); new_board[row][col] = symbol
child_board(board, row, col, symbol) == [board EXCEPT ![row][col] = symbol]

\* The terminal returns of minimax_search, each after `self.call_count += 1`
\* (minimax_leaf_uncounted: a faulty variant that counts only the invocations that
\* reach the loops).
minimax_leaf_uncounted(value) == [value |-> value, calls |-> 0]
minimax_leaf(value) == [value |-> value, calls |-> 1]

\* best_value = float('-inf') (initial_best_value_low: a faulty variant that starts
\* from the lowest score instead).
initial_best_value_low == loss_value(0)
initial_best_value == NegInf

\* if move_value > best_value (better_or_equal: a faulty variant that lets a later
\* candidate with an equal value replace the earlier one).
better_or_equal(move_value, best) == move_value >= best
better(move_value, best) == move_value > best

(***************************************************************************)
(* minimax_search as a function: the value returned and the number of      *)
(* invocations made (the increase of call_count).  The two nested loops    *)
(* visit the empty cells of `board` in row-major order.                    *)
(***************************************************************************)
RECURSIVE minimax_search(_, _, _), minimax_loop(_, _, _, _, _, _, _)
minimax_loop(board, depth, maximizing_player, es, i, eval, calls) ==
  IF i > Len(es) THEN [value |-> eval, calls |-> calls]
  ELSE LET r == minimax_search(
                  child_board(board, es[i][1], es[i][2], IF maximizing_player THEN "O" ELSE "X"),
                  depth + 1, ~maximizing_player)
       IN  \* max_eval = max(max_eval, eval_score) / min_eval = min(min_eval, eval_score)
           IF (maximizing_player /\ r.value > eval) \/ (~maximizing_player /\ r.value < eval)
           THEN minimax_loop(board, depth, maximizing_player, es, i + 1, r.value, calls + r.calls)
           ELSE minimax_loop(board, depth, maximizing_player, es, i + 1, eval, calls + r.calls)

minimax_search(board, depth, maximizing_player) ==
  LET status == game_status(board) IN
  IF status = "O" THEN minimax_leaf(win_value(depth))
  ELSE IF status = "X" THEN minimax_leaf(loss_value(depth))
  ELSE IF status = "Draw" THEN minimax_leaf(0)
  ELSE minimax_loop(board, depth, maximizing_player, find_empty_spots(board), 1,
                    IF maximizing_player THEN NegInf ELSE PosInf, 1)

(***************************************************************************)
(* alpha_beta_search as a function: the value, the number of invocations,  *)
(* whether `beta <= alpha` was ever true (cutoff) and whether a break ever *)
(* left an empty cell unvisited (skipped).                                 *)
(***************************************************************************)
RECURSIVE alpha_beta_search(_, _, _, _, _), alpha_beta_loop(_, _, _, _, _, _, _, _)
alpha_beta_loop(board, depth, alpha, beta, maximizing_player, es, i, acc) ==
  IF i > Len(es) THEN acc
  ELSE LET r == alpha_beta_search(
                  child_board(board, es[i][1], es[i][2], IF maximizing_player THEN "O" ELSE "X"),
                  depth + 1, alpha, beta, ~maximizing_player)
           eval == IF maximizing_player THEN Max(acc.value, r.value) ELSE Min(acc.value, r.value)
           alpha2 == IF maximizing_player THEN Max(alpha, r.value) ELSE alpha
           beta2 == IF maximizing_player THEN beta ELSE Min(beta, r.value)
       IN  IF prune(alpha2, beta2)
           THEN \* the inner break, then the outer `if beta <= alpha: break`
                [value |-> eval, calls |-> acc.calls + r.calls, cutoff |-> TRUE,
                 skipped |-> acc.skipped \/ r.skipped \/ i < Len(es)]
           ELSE alpha_beta_loop(board, depth, alpha2, beta2, maximizing_player, es, i + 1,
                  [value |-> eval, calls |-> acc.calls + r.calls,
                   cutoff |-> acc.cutoff \/ r.cutoff, skipped |-> acc.skipped \/ r.skipped])

alpha_beta_search(board, depth, alpha, beta, maximizing_player) ==
  LET status == game_status(board)
      es == find_empty_spots(board)
      leaf(v) == [value |-> v, calls |-> 1, cutoff |-> FALSE, skipped |-> FALSE]
      start == leaf(IF maximizing_player THEN NegInf ELSE PosInf)
  IN
  IF status = "O" THEN leaf(win_value(depth))
  ELSE IF status = "X" THEN leaf(loss_value(depth))
  ELSE IF status = "Draw" THEN leaf(0)
  ELSE IF es[1][1] > 0 /\ prune(alpha, beta)
       THEN \* called with beta <= alpha and no empty cell in row 0: the outer check
            \* after row 0 breaks before any cell is tried
            [start EXCEPT !.cutoff = TRUE, !.skipped = TRUE]
  ELSE alpha_beta_loop(board, depth, alpha, beta, maximizing_player, es, 1, start)

(***************************************************************************)
(* calculate_best_move as a function of self.grid and self.chosen_algo.    *)
(***************************************************************************)
search(test_board, algo) ==
  IF algo = "minimax"
  THEN LET r == minimax_search(test_board, 0, FALSE)
       IN  [value |-> r.value, calls |-> r.calls, cutoff |-> FALSE, skipped |-> FALSE]
  ELSE alpha_beta_search(test_board, 0, NegInf, PosInf, FALSE)

RECURSIVE calculate_loop(_, _, _, _, _)
calculate_loop(g, algo, available_moves, i, acc) ==
  IF i > Len(available_moves) THEN acc
  ELSE LET move == available_moves[i]
           r == search(child_board(g, move[1], move[2], "O"), algo)
           seen == [acc EXCEPT !.calls = @ + r.calls,
                               !.values = Append(@, r.value),
                               !.cutoff = @ \/ r.cutoff,
                               !.skipped = @ \/ r.skipped]
       IN  IF better(r.value, acc.best_value)
           THEN calculate_loop(g, algo, available_moves, i + 1,
                  [seen EXCEPT !.best_value = r.value, !.best_position = move])
           ELSE calculate_loop(g, algo, available_moves, i + 1, seen)

calculate_best_move(g, algo) ==
  calculate_loop(g, algo, find_empty_spots(g), 1,
    [best_position |-> NoMove, best_value |-> initial_best_value, calls |-> 0,
     values |-> <<>>, cutoff |-> FALSE, skipped |-> FALSE])

(***************************************************************************)
(* State after TicTacToe() and before run_game chooses the algorithm.      *)
(***************************************************************************)
NoRun == [best_position |-> NoMove, best_value |-> NegInf, calls |-> 0, values |-> <<>>,
          cutoff |-> FALSE, skipped |-> FALSE]
NoLocals == [available_moves |-> <<>>, idx |-> 0, test_board |-> 0, grid_in |-> EmptyGrid]
NoRet == [fn |-> None, value |-> 0, board |-> EmptyGrid, board_in |-> EmptyGrid, depth |-> 0,
          alpha |-> NegInf, beta |-> PosInf, maximizing_player |-> FALSE, self_grid |-> 0]

Fresh ==
  /\ grid = EmptyGrid
  /\ call_count = 0
  /\ chosen_algo = None
  /\ result = None
  /\ best_position = NoMove
  /\ best_value = NegInf
  /\ move_values = <<>>
  /\ outcome = [minimax |-> NoRun, alpha_beta |-> NoRun]
  /\ self_grid = 0
  /\ heap = <<>>
  /\ stack = <<>>
  /\ cbm = NoLocals
  /\ ret = NoRet

search_vars == <<self_grid, heap, stack, cbm, ret>>

(***************************************************************************)
(* run_game.                                                               *)
(***************************************************************************)
Init == Fresh /\ pc = "choose_algo"

\* choice '1' or '2' (any other input prompts again and changes nothing)
ChooseAlgo(choice) ==
  /\ pc = "choose_algo"
  /\ chosen_algo' = IF choice = "1" THEN "minimax" ELSE "alpha_beta"
  /\ pc' = "human"
  /\ UNCHANGED <<grid, call_count, result, best_position, best_value, move_values, outcome>>
  /\ UNCHANGED search_vars

\* get_player_input returns only a (row, col) in range whose cell is empty; then
\* place_symbol(row, col, 'X') and the status check.
HumanTurn(row, col) ==
  /\ pc = "human"
  /\ grid[row][col] = " "
  /\ grid' = place_symbol(grid, row, col, "X")
  /\ result' = game_status(grid')
  /\ pc' = IF result' # None THEN "done" ELSE "ai"
  /\ UNCHANGED <<chosen_algo, call_count, best_position, best_value, move_values, outcome>>
  /\ UNCHANGED search_vars

\* ai_move = calculate_best_move(); if ai_move: place_symbol and the status check.
AITurn ==
  /\ pc = "ai"
  /\ \E r \in {calculate_best_move(grid, chosen_algo)} :
     /\ best_position' = r.best_position
     /\ best_value' = r.best_value
     /\ move_values' = r.values
     /\ call_count' = call_count + r.calls
     /\ IF r.best_position # NoMove
        THEN /\ grid' = place_symbol(grid, r.best_position[1], r.best_position[2], "O")
             /\ result' = game_status(grid')
             /\ pc' = IF result' # None THEN "done" ELSE "human"
        ELSE /\ pc' = "human"
             /\ UNCHANGED <<grid, result>>
  /\ UNCHANGED <<chosen_algo, outcome>>
  /\ UNCHANGED search_vars

Next ==
  \/ \E choice \in {"1", "2"} : ChooseAlgo(choice)
  \/ \E row \in Rows, col \in Cols : HumanTurn(row, col)
  \/ AITurn

Spec == Init /\ [][Next]_vars

(***************************************************************************)
(* calculate_best_move on the positions of legal alternating play: symbols *)
(* are placed alternately (X first) until the game ends; on any position   *)
(* reached the selector is run with minimax and then with alpha-beta.      *)
(***************************************************************************)
FnInit == Fresh /\ pc = "play"

FnPlace(row, col) ==
  /\ pc = "play"
  /\ game_status(grid) = None
  /\ grid[row][col] = " "
  /\ grid' = place_symbol(grid, row, col, IF CountOf(grid, "X") = CountOf(grid, "O") THEN "X" ELSE "O")
  /\ UNCHANGED <<chosen_algo, call_count, pc, result, best_position, best_value, move_values, outcome>>
  /\ UNCHANGED search_vars

FnRun(algo) ==
  /\ CountOf(grid, " ") <= MaxEmpty
  /\ chosen_algo' = algo
  /\ \E r \in {calculate_best_move(grid, algo)} :
     /\ best_position' = r.best_position
     /\ best_value' = r.best_value
     /\ move_values' = r.values
     /\ call_count' = call_count + r.calls
     /\ outcome' = [outcome EXCEPT ![algo] = r]
  /\ UNCHANGED <<grid, result>>
  /\ UNCHANGED search_vars

FnRunMinimax == pc = "play" /\ pc' = "minimax_done" /\ FnRun("minimax")

FnRunAlphaBeta == pc = "minimax_done" /\ pc' = "both_done" /\ FnRun("alpha_beta")

FnNext ==
  \/ \E row \in Rows, col \in Cols : FnPlace(row, col)
  \/ FnRunMinimax
  \/ FnRunAlphaBeta

FnSpec == FnInit /\ [][FnNext]_vars

(***************************************************************************)
(* calculate_best_move and the searches, statement by statement.           *)
(*                                                                         *)
(* A board is a list object: object 0 is the real game board (`grid`), the *)
(* simulated boards live in `heap` under ids 1, 2, ...  self_grid is the   *)
(* object self.grid refers to.  A frame of `stack` holds the parameters    *)
(* and locals of one invocation of minimax_search or alpha_beta_search;    *)
(* board_in, alpha_in and beta_in remember what the invocation received.   *)
(* An object is dropped from the heap when no frame refers to it any more. *)
(***************************************************************************)
Deref(id) == IF id = 0 THEN grid ELSE heap[id]

Put(h, id, b) == [i \in DOMAIN h \cup {id} |-> IF i = id THEN b ELSE h[i]]

Restrict(h, ids) == [i \in DOMAIN h \cap ids |-> h[i]]

\* copy.deepcopy(x): the id of a fresh list object (no_copy: a faulty variant that
\* hands back the object itself).
no_copy(id) == id
deepcopy(id) == CHOOSE i \in 1..(Cardinality(DOMAIN heap) + 1) :
                  /\ i \notin DOMAIN heap
                  /\ \A j \in 1..(i - 1) : j \in DOMAIN heap

\* self.grid = old_grid (keep_swapped: a faulty variant that leaves self.grid on the
\* simulated board).
keep_swapped(old_grid, board) == board
restore(old_grid, board) == old_grid

Top == stack[Len(stack)]
Pop == SubSeq(stack, 1, Len(stack) - 1)

\* The unfinished positions of alternating play (X first): no finished line, an empty
\* cell, and as many X as O or one more.  run_game calls calculate_best_move on those
\* with one X more.
StepBoards ==
  {g \in [Rows -> [Cols -> Symbols]] :
     /\ CountOf(g, " ") >= 1
     /\ CountOf(g, " ") <= MaxStepEmpty
     /\ CountOf(g, "X") - CountOf(g, "O") \in {0, 1}
     /\ game_status(g) = None}

StepInit ==
  /\ grid \in StepBoards
  /\ chosen_algo \in {"minimax", "alpha_beta"}
  /\ call_count = 0
  /\ pc = "cbm_start"
  /\ result = None
  /\ best_position = NoMove
  /\ best_value = NegInf
  /\ move_values = <<>>
  /\ outcome = [minimax |-> NoRun, alpha_beta |-> NoRun]
  /\ self_grid = 0
  /\ heap = <<>>
  /\ stack = <<>>
  /\ cbm = NoLocals
  /\ ret = NoRet

\* best_position = None; best_value = -inf; available_moves = self.find_empty_spots()
CbmStart ==
  /\ pc = "cbm_start"
  /\ best_position' = NoMove
  /\ best_value' = initial_best_value
  /\ move_values' = <<>>
  /\ cbm' = [available_moves |-> find_empty_spots(Deref(self_grid)), idx |-> 1,
             test_board |-> 0, grid_in |-> grid]
  /\ pc' = "cbm_loop"
  /\ ret' = NoRet
  /\ UNCHANGED <<grid, chosen_algo, call_count, result, outcome, self_grid, heap, stack>>

\* new = copy.deepcopy(from); new[row][col] = symbol; then the call of the search on
\* it, up to and including `self.call_count += 1; old_grid = self.grid; self.grid = board`.
Call(frames, from, row, col, symbol, depth, alpha, beta, maximizing_player) ==
  LET new == deepcopy(from)
      contents == child_board(Deref(from), row, col, symbol)
  IN  /\ grid' = IF new = 0 THEN contents ELSE grid
      /\ heap' = IF new = 0 THEN heap ELSE Put(heap, new, contents)
      /\ call_count' = call_count + 1
      /\ self_grid' = new
      /\ stack' = Append(frames,
           [fn |-> chosen_algo, board |-> new, board_in |-> contents, depth |-> depth,
            alpha |-> alpha, beta |-> beta, alpha_in |-> alpha, beta_in |-> beta,
            maximizing_player |-> maximizing_player, old_grid |-> self_grid,
            lpc |-> "swapped", row |-> 0, col |-> 0, eval |-> 0])

\* for move in available_moves: ... the search is called on test_board; after the
\* last move the method returns best_position.
CbmNext ==
  /\ pc = "cbm_loop"
  /\ ret' = NoRet
  /\ IF cbm.idx > Len(cbm.available_moves)
     THEN /\ pc' = "cbm_done"
          /\ UNCHANGED <<grid, call_count, self_grid, heap, stack, cbm>>
     ELSE LET move == cbm.available_moves[cbm.idx] IN
          /\ Call(stack, self_grid, move[1], move[2], "O", 0, NegInf, PosInf, FALSE)
          /\ cbm' = [cbm EXCEPT !.test_board = deepcopy(self_grid)]
          /\ pc' = "cbm_search"
  /\ UNCHANGED <<chosen_algo, result, best_position, best_value, move_values, outcome>>

\* `return value` of the top frame: the frame is popped, its board is dropped when
\* nothing refers to it, and the caller takes the value:
\*   in a search frame  max_eval = max(max_eval, eval_score) (min for the minimizer),
\*                      for alpha-beta the alpha / beta update and the two breaks;
\*   in calculate_best_move  the `if move_value > best_value` update.
Return(frame, value, grid_ref) ==
  LET rest == Pop
      live == {rest[i].board : i \in 1..Len(rest)}
  IN
  /\ ret' = [fn |-> frame.fn, value |-> value, board |-> Deref(frame.board),
             board_in |-> frame.board_in, depth |-> frame.depth,
             alpha |-> frame.alpha_in, beta |-> frame.beta_in,
             maximizing_player |-> frame.maximizing_player, self_grid |-> grid_ref]
  /\ self_grid' = grid_ref
  /\ heap' = Restrict(heap, live)
  /\ UNCHANGED <<grid, call_count>>
  /\ IF rest = <<>>
     THEN /\ stack' = rest
          /\ move_values' = Append(move_values, value)
          /\ IF better(value, best_value)
             THEN /\ best_value' = value
                  /\ best_position' = cbm.available_moves[cbm.idx]
             ELSE UNCHANGED <<best_value, best_position>>
          /\ cbm' = [cbm EXCEPT !.idx = @ + 1]
          /\ pc' = "cbm_loop"
     ELSE LET parent == rest[Len(rest)]
              eval == IF parent.maximizing_player THEN Max(parent.eval, value)
                                                  ELSE Min(parent.eval, value)
              alpha == IF parent.fn = "alpha_beta" /\ parent.maximizing_player
                       THEN Max(parent.alpha, value) ELSE parent.alpha
              beta == IF parent.fn = "alpha_beta" /\ ~parent.maximizing_player
                      THEN Min(parent.beta, value) ELSE parent.beta
              broken == parent.fn = "alpha_beta" /\ prune(alpha, beta)
          IN  /\ stack' = [rest EXCEPT ![Len(rest)] =
                    [parent EXCEPT !.eval = eval, !.alpha = alpha, !.beta = beta,
                                   !.row = IF broken THEN 3 ELSE @,
                                   !.col = IF broken THEN 0 ELSE @ + 1]]
              /\ UNCHANGED <<best_value, best_position, move_values, cbm, pc>>

\* current_score = self.score_position(); status = self.game_status();
\* self.grid = old_grid; then the three terminal returns, or the loops begin.
Evaluate ==
  /\ pc = "cbm_search"
  /\ stack # <<>>
  /\ Top.lpc = "swapped"
  /\ LET frame == Top
         status == game_status(Deref(self_grid))
         grid_ref == restore(frame.old_grid, frame.board)
     IN  IF status = "O" THEN Return(frame, win_value(frame.depth), grid_ref)
         ELSE IF status = "X" THEN Return(frame, loss_value(frame.depth), grid_ref)
         ELSE IF status = "Draw" THEN Return(frame, 0, grid_ref)
         ELSE /\ self_grid' = grid_ref
              /\ stack' = [stack EXCEPT ![Len(stack)] =
                    [frame EXCEPT !.lpc = "loop",
                                  !.eval = IF frame.maximizing_player THEN NegInf ELSE PosInf]]
              /\ ret' = NoRet
              /\ UNCHANGED <<grid, call_count, heap, best_value, best_position,
                             move_values, cbm, pc>>
  /\ UNCHANGED <<chosen_algo, result, outcome>>

\* Where `for row in range(3): for col in range(3): if board[row][col] == ' '` stops
\* next, from (row, col): at an empty cell, or at the end of the loops (alpha-beta
\* also leaves at the end of a row when beta <= alpha).
RECURSIVE Scan(_, _, _, _, _, _)
Scan(b, fn, alpha, beta, row, col) ==
  IF row = 3 THEN <<"end", row, col>>
  ELSE IF col = 3
       THEN IF fn = "alpha_beta" /\ prune(alpha, beta)
            THEN <<"end", row, col>>
            ELSE Scan(b, fn, alpha, beta, row + 1, 0)
  ELSE IF b[row][col] = " " THEN <<"cell", row, col>>
  ELSE Scan(b, fn, alpha, beta, row, col + 1)

\* The loops of a search frame run to the next empty cell, where the child board is
\* built and searched, or to their end, where max_eval / min_eval is returned.
Loop ==
  /\ pc = "cbm_search"
  /\ stack # <<>>
  /\ Top.lpc = "loop"
  /\ LET frame == Top
         stop == Scan(Deref(frame.board), frame.fn, frame.alpha, frame.beta, frame.row, frame.col)
     IN  IF stop[1] = "end"
         THEN Return(frame, frame.eval, self_grid)
         ELSE /\ Call([stack EXCEPT ![Len(stack)] = [frame EXCEPT !.row = stop[2], !.col = stop[3]]],
                      frame.board, stop[2], stop[3],
                      IF frame.maximizing_player THEN "O" ELSE "X",
                      frame.depth + 1, frame.alpha, frame.beta, ~frame.maximizing_player)
              /\ ret' = NoRet
              /\ UNCHANGED <<best_value, best_position, move_values, cbm, pc>>
  /\ UNCHANGED <<chosen_algo, result, outcome>>

StepNext ==
  \/ CbmStart
  \/ CbmNext
  \/ Evaluate
  \/ Loop

StepSpec == StepInit /\ [][StepNext]_vars

\* The step-by-step execution computes what the functions above compute.
StepAgrees ==
  pc = "cbm_done" =>
    LET r == calculate_best_move(cbm.grid_in, chosen_algo) IN
    /\ best_position = r.best_position
    /\ best_value = r.best_value
    /\ move_values = r.values
    /\ call_count = r.calls

(***************************************************************************)
(* Vocabulary of the claims.                                               *)
(***************************************************************************)
\* FnSpec: the selector has just run on `grid` with chosen_algo.
Ran == pc \in {"minimax_done", "both_done"}
\* FnSpec: both algorithms have run on `grid`.
RanBoth == pc = "both_done"
Empties == CountOf(grid, " ")
OToMove == CountOf(grid, "X") = CountOf(grid, "O") + 1
\* Placing O at the i-th empty cell completes a line of three O's.
WinsAt(i) ==
  LET m == find_empty_spots(grid)[i] IN game_status(child_board(grid, m[1], m[2], "O")) = "O"
Candidates == 1..Len(find_empty_spots(grid))
\* The greatest of the values calculate_best_move saw, and the first place it occurs.
Greatest == CHOOSE v \in {move_values[i] : i \in DOMAIN move_values} :
              \A i \in DOMAIN move_values : move_values[i] <= v
FirstGreatest == CHOOSE i \in DOMAIN move_values :
                   /\ move_values[i] = Greatest
                   /\ \A j \in 1..(i - 1) : move_values[j] # Greatest
\* Exactly one empty cell and no completed row, column or diagonal.
OneLeft == Empties = 1 /\ game_status(grid) \notin {"X", "O"}
\* X holds a whole row, column or diagonal.
XHasLine ==
  \/ \E i \in Rows : \A j \in Cols : grid[i][j] = "X"
  \/ \E j \in Cols : \A i \in Rows : grid[i][j] = "X"
  \/ \A i \in Rows : grid[i][i] = "X"
  \/ \A i \in Rows : grid[i][2 - i] = "X"
\* StepSpec: what minimax_search returns at the node of the invocation that just returned.
MinimaxOfRet == minimax_search(ret.board_in, ret.depth, ret.maximizing_player).value

(***************************************************************************)
(* C1. On every non-terminal board of legal alternating play with O to     *)
(* move, calculate_best_move returns the same (row, col) with alpha_beta   *)
(* as with minimax, and keeps the same best_value.                         *)
(***************************************************************************)
C1_SameMoveAndValue ==
  (RanBoth /\ OToMove /\ game_status(grid) = None) =>
    /\ outcome.alpha_beta.best_position = outcome.minimax.best_position
    /\ outcome.alpha_beta.best_value = outcome.minimax.best_value

\* Both algorithms ran on a board with eight empty cells, alpha-beta skipped cells, and
\* the two agree on the move.
C1_Witness ==
  /\ RanBoth /\ OToMove /\ game_status(grid) = None
  /\ Empties = 8
  /\ outcome.alpha_beta.skipped
  /\ outcome.alpha_beta.calls < outcome.minimax.calls
  /\ outcome.alpha_beta.best_position = outcome.minimax.best_position
  /\ outcome.alpha_beta.best_position # NoMove

(***************************************************************************)
(* C2. calculate_best_move returns None exactly when the board has no      *)
(* empty cell; otherwise, with either algorithm, it returns a (row, col)   *)
(* with 0 <= row, col <= 2 whose cell of self.grid is ' '.                 *)
(***************************************************************************)
C2_LegalMoveOrNone ==
  Ran =>
    /\ (best_position = NoMove) <=> (Empties = 0)
    /\ Empties >= 1 =>
         /\ Len(best_position) = 2
         /\ best_position[1] \in 0..2
         /\ best_position[2] \in 0..2
         /\ grid[best_position[1]][best_position[2]] = " "

\* The selector ran on a board X has already won, where every candidate scores -10,
\* and still returned an empty cell.
C2_Witness ==
  /\ Ran
  /\ game_status(grid) = "X"
  /\ Empties >= 2
  /\ best_value = -10
  /\ best_position # NoMove
  /\ grid[best_position[1]][best_position[2]] = " "

\* The selector ran on a full board and returned None.
C2_WitnessFull == Ran /\ Empties = 0 /\ best_position = NoMove

(***************************************************************************)
(* C3. On every board with an empty cell calculate_best_move returns the   *)
(* empty cell with the greatest search value, and among several cells with *)
(* that value the first in row-major order.                                *)
(***************************************************************************)
C3_FirstGreatest ==
  (Ran /\ Empties >= 1) =>
    /\ Len(move_values) = Len(find_empty_spots(grid))
    /\ best_value = Greatest
    /\ best_position = find_empty_spots(grid)[FirstGreatest]

\* A run where the greatest value occurs at two candidates, the first of them is not
\* the first candidate, and it was returned.
C3_Witness ==
  /\ Ran /\ Empties >= 3
  /\ \E i, j \in DOMAIN move_values :
        /\ 1 < i /\ i < j
        /\ move_values[i] = Greatest /\ move_values[j] = Greatest
        /\ move_values[1] < Greatest
        /\ i = FirstGreatest
        /\ best_position = find_empty_spots(grid)[i]

(***************************************************************************)
(* C6. As first stated: alpha-beta never makes more search invocations     *)
(* than minimax on the same board, and strictly fewer whenever the cutoff  *)
(* condition beta <= alpha becomes true at least once.                     *)
(***************************************************************************)
C6_FewerWheneverCutoff ==
  RanBoth =>
    /\ outcome.alpha_beta.calls <= outcome.minimax.calls
    /\ outcome.alpha_beta.cutoff => outcome.alpha_beta.calls < outcome.minimax.calls

(***************************************************************************)
(* C6, amended. Alpha-beta never makes more search invocations than        *)
(* minimax on the same board, and strictly fewer exactly when a break      *)
(* leaves at least one empty cell of some node untried; a cutoff condition *)
(* that becomes true at the last empty cell of a node saves nothing.       *)
(***************************************************************************)
C6_FewerWheneverSkipped ==
  RanBoth =>
    /\ outcome.alpha_beta.calls <= outcome.minimax.calls
    /\ outcome.alpha_beta.skipped <=> (outcome.alpha_beta.calls < outcome.minimax.calls)
    /\ outcome.alpha_beta.skipped => outcome.alpha_beta.cutoff

\* Alpha-beta left cells untried and made fewer invocations than minimax.
C6_Witness ==
  /\ RanBoth
  /\ outcome.alpha_beta.skipped
  /\ outcome.alpha_beta.calls < outcome.minimax.calls
  /\ Empties = 4

\* The cutoff condition became true, only at last cells, and the counts are equal.
C6_CutoffSavesNothing ==
  /\ RanBoth
  /\ outcome.alpha_beta.cutoff
  /\ ~outcome.alpha_beta.skipped
  /\ outcome.alpha_beta.calls = outcome.minimax.calls

(***************************************************************************)
(* C7. When the board is non-terminal and some empty cell completes three  *)
(* O's, calculate_best_move (either algorithm) returns the row-major first *)
(* such cell, its score is 10, and every candidate that does not win at    *)
(* once scores strictly less.                                              *)
(***************************************************************************)
C7_TakesImmediateWin ==
  (Ran /\ game_status(grid) = None /\ \E i \in Candidates : WinsAt(i)) =>
    LET first == CHOOSE i \in Candidates : WinsAt(i) /\ \A j \in 1..(i - 1) : ~WinsAt(j) IN
    /\ best_position = find_empty_spots(grid)[first]
    /\ best_value = 10
    /\ \A i \in Candidates : ~WinsAt(i) => move_values[i] < 10

\* The board [[X,X,' '],[O,O,' '],[' ',' ',' ']]: (1,2) is returned with score 10.
C7_Witness ==
  /\ Ran
  /\ grid = [EmptyGrid EXCEPT ![0][0] = "X", ![0][1] = "X", ![1][0] = "O", ![1][1] = "O"]
  /\ best_position = <<1, 2>>
  /\ best_value = 10

(***************************************************************************)
(* C8. As first stated: on every board with exactly one empty cell and no  *)
(* completed line, game_status returns 'Draw' and the score of the move    *)
(* calculate_best_move selects is 0.                                       *)
(***************************************************************************)
C8_DrawWithOneLeft ==
  (Ran /\ OneLeft) => (game_status(grid) = "Draw" /\ best_value = 0)

(***************************************************************************)
(* C8, amended. On every board with exactly one empty cell and no completed*)
(* line, game_status returns None (the game is still on) and               *)
(* calculate_best_move returns that cell; once O is placed there,          *)
(* game_status returns 'Draw' and the score of the move is 0, unless the O *)
(* completes a line, in which case game_status returns 'O' and the score   *)
(* is 10.                                                                  *)
(***************************************************************************)
C8_OneLeftThenDrawOrWin ==
  (Ran /\ OneLeft) =>
    /\ game_status(grid) = None
    /\ best_position = find_empty_spots(grid)[1]
    /\ LET after == place_symbol(grid, best_position[1], best_position[2], "O") IN
       IF WinsAt(1)
       THEN game_status(after) = "O" /\ best_value = 10
       ELSE game_status(after) = "Draw" /\ best_value = 0 /\ score_position(after) = 0

\* One cell left, O completes no line there: the move scores 0 and the board it gives is a draw.
C8_Witness ==
  /\ Ran /\ OneLeft
  /\ ~WinsAt(1)
  /\ best_value = 0
  /\ game_status(child_board(grid, best_position[1], best_position[2], "O")) = "Draw"

\* One cell left, O completes a line there: the move scores 10.
C8_WitnessWin == Ran /\ OneLeft /\ WinsAt(1) /\ best_value = 10

(***************************************************************************)
(* C4. The search never mutates the caller's board: while                  *)
(* calculate_best_move runs and when it returns, the real board holds the  *)
(* contents it held at the call; the board every live invocation received  *)
(* is unchanged, so a move made in one branch is not visible to a sibling  *)
(* or an ancestor; whenever an invocation returns, its board argument is   *)
(* unchanged and self.grid refers to the real board again; self.grid is    *)
(* on a simulated board only between the swap and the restore of the       *)
(* innermost invocation.                                                   *)
(***************************************************************************)
C4_BoardsUntouched ==
  /\ pc \in {"cbm_loop", "cbm_search", "cbm_done"} => grid = cbm.grid_in
  /\ \A i \in 1..Len(stack) : Deref(stack[i].board) = stack[i].board_in
  /\ ret.fn # None => (ret.board = ret.board_in /\ ret.self_grid = 0 /\ self_grid = 0)
  /\ pc = "cbm_done" => self_grid = 0
  /\ self_grid # 0 => (stack # <<>> /\ Top.lpc = "swapped" /\ self_grid = Top.board)

\* An invocation two levels down has just returned to a parent that still has an
\* empty cell to try, and the parent's board is as the parent received it.
C4_Witness ==
  /\ ret.fn # None /\ ret.depth = 2
  /\ Len(stack) = 2
  /\ self_grid = 0
  /\ Top.row < 3
  /\ \E c \in Cols : c >= Top.col /\ Deref(Top.board)[Top.row][c] = " "
  /\ Deref(Top.board) = Top.board_in
  /\ ret.board # Top.board_in

(***************************************************************************)
(* C5. As first stated: at every node alpha_beta_search visits, also one   *)
(* invoked with narrowed alpha / beta, it returns the value minimax_search *)
(* returns for the same board, depth and side to move.                     *)
(***************************************************************************)
C5_ExactAtEveryNode ==
  ret.fn = "alpha_beta" => ret.value = MinimaxOfRet

(***************************************************************************)
(* C5, amended. alpha_beta_search returns the minimax value at every node  *)
(* whose minimax value lies strictly between the alpha and beta it was     *)
(* invoked with, in particular at every node invoked with (-inf, +inf)     *)
(* such as the root of each candidate; at a node whose minimax value is    *)
(* >= beta it returns a value from beta up to the minimax value, and at a  *)
(* node whose minimax value is <= alpha a value from the minimax value up  *)
(* to alpha, which may differ from the minimax value.                      *)
(***************************************************************************)
C5_ExactInsideWindow ==
  ret.fn = "alpha_beta" =>
    LET mm == MinimaxOfRet IN
    /\ (ret.alpha < mm /\ mm < ret.beta) => ret.value = mm
    /\ (ret.alpha = NegInf /\ ret.beta = PosInf) => ret.value = mm
    /\ mm >= ret.beta => (ret.beta <= ret.value /\ ret.value <= mm)
    /\ mm <= ret.alpha => (mm <= ret.value /\ ret.value <= ret.alpha)

\* A node invoked with a narrowed beta returned less than its minimax value.
C5_Witness ==
  /\ ret.fn = "alpha_beta"
  /\ ret.beta < PosInf
  /\ ret.beta <= ret.value
  /\ ret.value < MinimaxOfRet

\* A node invoked with narrowed bounds returned its minimax value.
C5_WitnessExact ==
  /\ ret.fn = "alpha_beta"
  /\ ret.beta < PosInf
  /\ ret.maximizing_player
  /\ ret.depth = 1
  /\ ret.value < ret.beta
  /\ ret.value = MinimaxOfRet

(***************************************************************************)
(* C9. The AI never loses: in every game of run_game, whatever legal cells *)
(* the human chooses and whichever algorithm is chosen, no state has a     *)
(* completed line of X, game_status never returns 'X', and a finished game *)
(* has result 'O' or 'Draw'.                                               *)
(***************************************************************************)
C9_AINeverLoses ==
  /\ ~XHasLine
  /\ game_status(grid) # "X"
  /\ result # "X"
  /\ pc = "done" => result \in {"O", "Draw"}

\* A game the AI has won.
C9_Witness == pc = "done" /\ result = "O" /\ game_status(grid) = "O" /\ ~XHasLine

\* A game played to a full board and drawn.
C9_WitnessDraw == pc = "done" /\ result = "Draw" /\ CountOf(grid, " ") = 0

\* run_game: the state of the loop at each of its positions.
C10_Alternation ==
  /\ CountOf(grid, "X") - CountOf(grid, "O") \in {0, 1}
  /\ CountOf(grid, "X") <= 5 /\ CountOf(grid, "O") <= 4
  /\ pc \in {"choose_algo", "human"} =>
       /\ CountOf(grid, "X") = CountOf(grid, "O")
       /\ CountOf(grid, " ") >= 1
       /\ result = None
  /\ pc = "ai" => /\ CountOf(grid, "X") = CountOf(grid, "O") + 1
                  /\ game_status(grid) = None
                  /\ CountOf(grid, " ") >= 1
                  /\ result = None
  /\ CountOf(grid, " ") = 0 => game_status(grid) # None
  /\ pc = "done" <=> game_status(grid) # None
  /\ pc = "done" => result = game_status(grid)

\* run_game: what one turn of the loop does to the board.
C10_EveryTurnPlaces ==
  /\ pc = "human" => /\ CountOf(grid', "X") = CountOf(grid, "X") + 1
                     /\ CountOf(grid', "O") = CountOf(grid, "O")
  /\ pc = "ai" => /\ best_position' # NoMove
                  /\ grid[best_position'[1]][best_position'[2]] = " "
                  /\ CountOf(grid', "O") = CountOf(grid, "O") + 1
                  /\ CountOf(grid', "X") = CountOf(grid, "X")
  /\ pc = "done" => pc' = "done"

(***************************************************************************)
(* C10. Every game terminates with the turns strictly alternating: X and O *)
(* are placed alternately starting with X (the count of X minus the count  *)
(* of O is always 0 or 1), game_status is not None once 9 symbols are      *)
(* placed (at most 5 human and 4 AI moves), calculate_best_move is only    *)
(* invoked on a non-terminal board with an empty cell and never returns    *)
(* None in the loop, and the loop cannot spin: while the game is on, the   *)
(* side to move has a cell to take and its turn places exactly one symbol, *)
(* so the loop body runs at most 9 times.                                  *)
(***************************************************************************)
C10_TerminatesAlternating ==
  /\ []C10_Alternation
  /\ [][C10_EveryTurnPlaces]_vars

\* A game that ended only with the ninth symbol: five X and four O.
C10_Witness ==
  /\ pc = "done"
  /\ CountOf(grid, "X") = 5 /\ CountOf(grid, "O") = 4
  /\ best_position # NoMove

====
